---- MODULE Spec2Model ----
(***************************************************************************)
(* Model of the ComfyUI reverse proxy / supervisor (src/proxy_server.py).  *)
(*                                                                         *)
(* Five specifications share one set of variables:                         *)
(*   Spec      main(), the backend process and health_monitor()            *)
(*   SpecWS    one websocket_proxy() relay session                         *)
(*   SpecHTTP  proxy_handler() requests, one after another, against a      *)
(*             backend that may die and be restarted                       *)
(*   SpecNorm  normalize_path() applied to bounded strings                 *)
(*   SpecMsg   the rewriting of one query string, header set or response   *)
(*             by proxy_handler(), and the route table                     *)
(* Strings are sequences of one-character strings.                         *)
(***************************************************************************)
EXTENDS Integers, Sequences, FiniteSets, TLC

\* ---------------------------------------------------------------- constants
HTTP_TIMEOUT == 600
STARTUP_TIMEOUT == 60
\* timeout=2 of the readiness GET
READY_TIMEOUT == 2
\* asyncio.sleep(1) between readiness polls
POLL_SLEEP == 1
\* asyncio.sleep(30) between health checks
HEALTH_INTERVAL == 30
\* comfyui_process.wait(timeout=5)
GRACE == 5

\* ------------------------------------------------------------------- bounds
\* longest inbound path and longest prefix drawn for normalize_path
MaxPathLen == 4
MaxPrefixLen == 2
\* backend processes the proxy may launch in one run
MaxLaunches == 3
\* client connections in flight at once
MaxConns == 2
\* data frames read by one relay session, both directions together
MaxFrames == 3
\* time units by which the wait for the backend's HTTP answer advances
HttpTick == 150
\* longest query string, in tokens
MaxQueryLen == 3
\* most header fields in one request or response
MaxHeaders == 2

Alphabet == {"/", "a", "b"}

Min(a, b) == IF a <= b THEN a ELSE b

RECURSIVE Strs(_)
Strs(n) == IF n = 0 THEN {<< >>}
           ELSE LET S == Strs(n - 1)
                IN  S \cup {Append(s, c) : s \in {t \in S : Len(t) = n - 1}, c \in Alphabet}

\* str.startswith
startswith(s, p) == Len(p) <= Len(s) /\ SubSeq(s, 1, Len(p)) = p

IsPrefixOf(s, t) == Len(s) <= Len(t) /\ SubSeq(t, 1, Len(s)) = s

VARIABLES
  \* ---- configuration
  NB_PREFIX,
  \* ---- main(), the backend processes, health_monitor()
  mainPc, procs, cur, elapsed, lastPoll, readyLate, monPc, monTimer, deadFor,
  listening, inflight, waitTimer, exitCode, exitReason,
  \* ---- websocket_proxy()
  wsPc, wsClient, wsServer, task, recv, dlv, connFailed,
  \* ---- proxy_handler()
  hPc, hMethod, hAccept, hWaited, hFailure, hResp, hResponses, hEscaped, hTarget, hAttempts,
  hPrev,
  \* ---- normalize_path()
  nPath, nPc, nOut, nOutEmpty, nOutTwice,
  \* ---- one request or response taken through the handler's rewriting
  mKind, mPc, mQuery, mTargetQuery, mParserCanon, mReqHeaders, mOutHeaders,
  mBackendResp, mClientResp, mMethod, mPath, mHandler

cfgVars  == <<NB_PREFIX>>
supVars  == <<mainPc, procs, cur, elapsed, lastPoll, readyLate, monPc, monTimer, deadFor,
              listening, inflight, waitTimer, exitCode, exitReason>>
wsVars   == <<wsPc, wsClient, wsServer, task, recv, dlv, connFailed>>
httpVars == <<hPc, hMethod, hAccept, hWaited, hFailure, hResp, hResponses, hEscaped, hTarget,
              hAttempts, hPrev>>
normVars == <<nPath, nPc, nOut, nOutEmpty, nOutTwice>>
msgVars  == <<mKind, mPc, mQuery, mTargetQuery, mParserCanon, mReqHeaders, mOutHeaders,
              mBackendResp, mClientResp, mMethod, mPath, mHandler>>
vars     == <<cfgVars, supVars, wsVars, httpVars, normVars, msgVars>>

\* ------------------------------------------------------------ normalize_path
normalize_path_NoSlash(prefix, path) ==
  IF startswith(path, prefix) THEN SubSeq(path, Len(prefix) + 1, Len(path)) ELSE path

normalize_path_Always(prefix, path) ==
  LET stripped == IF startswith(path, prefix)
                  THEN SubSeq(path, Len(prefix) + 1, Len(path)) ELSE path
  IN  <<"/">> \o stripped

RECURSIVE lstrip_slash(_)
lstrip_slash(s) == IF startswith(s, <<"/">>) THEN lstrip_slash(Tail(s)) ELSE s

normalize_path_Collapse(prefix, path) ==
  LET stripped == IF startswith(path, prefix)
                  THEN SubSeq(path, Len(prefix) + 1, Len(path)) ELSE path
  IN  <<"/">> \o lstrip_slash(stripped)

normalize_path(prefix, path) ==
  LET stripped == IF startswith(path, prefix)
                  THEN SubSeq(path, Len(prefix) + 1, Len(path)) ELSE path
  IN  IF ~startswith(stripped, <<"/">>) THEN <<"/">> \o stripped ELSE stripped

\* ---------------------------------------------------------- idle sub-states
SupIdle ==
  /\ mainPc = "init" /\ procs = << >> /\ cur = 0 /\ elapsed = 0
  /\ lastPoll = [kind |-> "none", status |-> 0] /\ readyLate = FALSE /\ monPc = "none" /\ monTimer = 0 /\ deadFor = 0
  /\ listening = FALSE /\ inflight = 0 /\ waitTimer = 0
  /\ exitCode = -1 /\ exitReason = "none"

WsIdle ==
  /\ wsPc = "idle" /\ wsClient = "none" /\ wsServer = "none"
  /\ task = [d \in {"c2s", "s2c"} |-> "none"]
  /\ recv = [d \in {"c2s", "s2c"} |-> << >>]
  /\ dlv = [d \in {"c2s", "s2c"} |-> << >>]
  /\ connFailed = FALSE

HttpIdle ==
  /\ hPc = "idle" /\ hMethod = "GET" /\ hAccept = << >> /\ hWaited = 0
  /\ hFailure = "none" /\ hResp = [status |-> 0, body |-> "none"]
  /\ hResponses = 0 /\ hEscaped = "none"
  /\ hTarget = 0 /\ hAttempts = 0
  /\ hPrev = [target |-> 0, status |-> 0, failure |-> "none"]

NormIdle ==
  /\ nPath = << >> /\ nPc = "idle" /\ nOut = << >> /\ nOutEmpty = << >> /\ nOutTwice = << >>

MsgIdle ==
  /\ mKind = "none" /\ mPc = "idle" /\ mQuery = << >> /\ mTargetQuery = << >>
  /\ mParserCanon = FALSE /\ mReqHeaders = << >> /\ mOutHeaders = << >>
  /\ mBackendResp = << >> /\ mClientResp = << >>
  /\ mMethod = "GET" /\ mPath = << >> /\ mHandler = "none"

\* ---------------------------------------------------------------- SpecNorm
InitNorm ==
  /\ NB_PREFIX \in Strs(MaxPrefixLen)
  /\ nPath \in Strs(MaxPathLen)
  /\ nPc = "input" /\ nOut = << >> /\ nOutEmpty = << >> /\ nOutTwice = << >>
  /\ SupIdle /\ WsIdle /\ HttpIdle /\ MsgIdle

\* p' = normalize_path(p) under the configured prefix
Normalize ==
  /\ nPc = "input"
  /\ nOut' = normalize_path(NB_PREFIX, nPath)
  /\ nPc' = "once"
  /\ UNCHANGED <<nPath, nOutEmpty, nOutTwice, cfgVars, msgVars, supVars, wsVars, httpVars>>

\* the same path under an empty prefix
NormalizeEmptyPrefix ==
  /\ nPc = "once"
  /\ nOutEmpty' = normalize_path(<< >>, nPath)
  /\ nPc' = "empty"
  /\ UNCHANGED <<nPath, nOut, nOutTwice, cfgVars, msgVars, supVars, wsVars, httpVars>>

\* the configured prefix applied to the result of the empty-prefix call
NormalizeAgain ==
  /\ nPc = "empty"
  /\ nOutTwice' = normalize_path(NB_PREFIX, nOutEmpty)
  /\ nPc' = "done"
  /\ UNCHANGED <<nPath, nOut, nOutEmpty, cfgVars, msgVars, supVars, wsVars, httpVars>>

NextNorm == Normalize \/ NormalizeEmptyPrefix \/ NormalizeAgain

SpecNorm == InitNorm /\ [][NextNorm]_vars

\* C9: the normalized path always starts with "/"; when the path starts with
\* the prefix, exactly the first Len(prefix) characters are removed (a "/" is
\* put in front only if what is left does not start with one); a path equal
\* to the prefix normalizes to "/".
C9_NormalizeShape ==
  nPc # "input" =>
    /\ startswith(nOut, <<"/">>)
    /\ startswith(nPath, NB_PREFIX) =>
         LET rest == SubSeq(nPath, Len(NB_PREFIX) + 1, Len(nPath))
         IN  /\ startswith(rest, <<"/">>) => nOut = rest
             /\ ~startswith(rest, <<"/">>) => nOut = <<"/">> \o rest
    /\ nPath = NB_PREFIX => nOut = <<"/">>
    /\ (NB_PREFIX = <<"/", "a">> /\ nPath = <<"/", "a", "/", "b">>) => nOut = <<"/", "b">>

\* a path holding the prefix twice loses it once
C9_Witness ==
  /\ nPc # "input"
  /\ NB_PREFIX = <<"/", "a">>
  /\ nPath = <<"/", "a", "/", "a">>
  /\ nOut = <<"/", "a">>

\* C10 as stated: for every prefix P and every path p,
\* normalize(P, normalize("", p)) = normalize(P, p).
C10_IdempotenceAllStrings ==
  nPc = "done" => nOutTwice = nOut

\* C10 amended: the law holds for every prefix P and every path p that
\* starts with "/".
C10_IdempotenceSlashPaths ==
  (nPc = "done" /\ startswith(nPath, <<"/">>)) => nOutTwice = nOut

C10_Witness ==
  /\ nPc = "done"
  /\ NB_PREFIX # << >>
  /\ startswith(nPath, <<"/">>)
  /\ startswith(nPath, NB_PREFIX)
  /\ Len(nPath) > Len(NB_PREFIX)
  /\ nOutTwice = nOut

\* C11 as stated: with an empty prefix normalize_path returns every string
\* unchanged.
C11_EmptyPrefixIdentityAllStrings ==
  nPc \in {"empty", "done"} => nOutEmpty = nPath

\* C11 amended: with an empty prefix normalize_path returns every path that
\* starts with "/" unchanged (any other string gets a "/" in front).
C11_EmptyPrefixIdentity ==
  nPc \in {"empty", "done"} =>
    /\ startswith(nPath, <<"/">>) => nOutEmpty = nPath
    /\ ~startswith(nPath, <<"/">>) => nOutEmpty = <<"/">> \o nPath

\* a path with two leading slashes comes back as it was
C11_Witness ==
  /\ nPc = "empty"
  /\ nPath = <<"/", "/", "a">>
  /\ nOutEmpty = nPath

\* ------------------------------------------ backend process (subprocess.Popen)
\* a process record: st is "starting" (not yet serving HTTP), "ready" or
\* "exited"; sig is the last signal the proxy sent it
NewProc == [st |-> "starting", sig |-> "none"]

Exited(p) == p.st = "exited"

poll_is_not_None_Always(p) == TRUE

\* Popen.poll() is not None
poll_is_not_None(p) == Exited(p)

\* Popen.terminate(): SIGTERM, nothing at all for a process that has exited
terminate(p) == IF Exited(p) THEN p ELSE [p EXCEPT !.sig = "TERM"]

\* Popen.kill(): SIGKILL cannot be caught, the process is gone
kill(p) == IF Exited(p) THEN p ELSE [st |-> "exited", sig |-> "KILL"]

CurProc == procs[cur]

\* ------------------------------------------------------------ is_comfyui_ready
Statuses == {200, 404, 500, 503}

\* what the GET to the backend's root can end in, given the process state:
\* a response, or an exception (connection refused, the 2 s timeout)
NoResponse(kind) == [kind |-> kind, status |-> 0]

PollOutcomes(p) ==
  IF p.st = "ready"
  THEN {[kind |-> "response", status |-> s] : s \in Statuses} \cup {NoResponse("timeout")}
  ELSE {NoResponse("refused"), NoResponse("timeout")}

is_comfyui_ready_Upto500(outcome) ==
  IF outcome.kind = "response" THEN outcome.status <= 500 ELSE FALSE

\* return resp.status < 500; except: return False
is_comfyui_ready(outcome) ==
  IF outcome.kind = "response" THEN outcome.status < 500 ELSE FALSE

\* time.time() - start_time > STARTUP_TIMEOUT
StartupTimedOut(e) == e > STARTUP_TIMEOUT

\* app.router.add_routes: registering GET '/ws' twice on the same resource
\* raises RuntimeError, which is what NB_PREFIX + '/ws' is for an empty prefix
add_routes(prefix) == IF prefix \o <<"/", "w", "s">> = <<"/", "w", "s">>
                      THEN "RuntimeError" ELSE "ok"

\* the event loop runs tasks: main() is not inside a blocking call and the
\* process has not ended
LoopRuns == mainPc \in {"poll", "timeout_check", "bind", "serving", "closing"}

\* ------------------------------------------------------------------- main()
\* comfyui_process = start_comfyui(); start_time = time.time()
MainLaunch ==
  /\ mainPc = "init"
  /\ procs' = <<NewProc>>
  /\ cur' = 1
  /\ elapsed' = 0
  /\ mainPc' = "poll"
  /\ UNCHANGED <<lastPoll, readyLate, monPc, monTimer, deadFor, listening, inflight, waitTimer,
                 exitCode, exitReason, cfgVars, msgVars, wsVars, httpVars, normVars>>

\* subprocess.Popen raises (fork or exec fails): main() ends with the exception
MainLaunchFails ==
  /\ mainPc = "init"
  /\ mainPc' = "exited"
  /\ exitCode' = 1
  /\ exitReason' = "launch_error"
  /\ UNCHANGED <<procs, cur, elapsed, lastPoll, readyLate, monPc, monTimer, deadFor, listening,
                 inflight, waitTimer, cfgVars, msgVars, wsVars, httpVars, normVars>>

\* while not await is_comfyui_ready(): one GET, which takes up to READY_TIMEOUT
MainPoll ==
  /\ mainPc = "poll"
  /\ \E outcome \in PollOutcomes(CurProc) :
       \E d \in (IF outcome.kind = "timeout" THEN {READY_TIMEOUT} ELSE 0..READY_TIMEOUT) :
         /\ lastPoll' = outcome
         /\ elapsed' = elapsed + d
         /\ mainPc' = IF is_comfyui_ready(outcome) THEN "started" ELSE "timeout_check"
         /\ readyLate' = (is_comfyui_ready(outcome) /\ elapsed + d > STARTUP_TIMEOUT)
  /\ UNCHANGED <<procs, cur, monPc, monTimer, deadFor, listening, inflight, waitTimer,
                 exitCode, exitReason, cfgVars, msgVars, wsVars, httpVars, normVars>>

\* the poll failed and the window is over: terminate(), sys.exit(1)
MainStartupTimeout ==
  /\ mainPc = "timeout_check"
  /\ StartupTimedOut(elapsed)
  /\ procs' = [procs EXCEPT ![cur] = terminate(@)]
  /\ mainPc' = "exited"
  /\ exitCode' = 1
  /\ exitReason' = "startup_timeout"
  /\ UNCHANGED <<cur, elapsed, lastPoll, readyLate, monPc, monTimer, deadFor, listening, inflight,
                 waitTimer, cfgVars, msgVars, wsVars, httpVars, normVars>>

\* the poll failed inside the window: await asyncio.sleep(1)
MainSleep ==
  /\ mainPc = "timeout_check"
  /\ ~StartupTimedOut(elapsed)
  /\ elapsed' = elapsed + POLL_SLEEP
  /\ mainPc' = "poll"
  /\ UNCHANGED <<procs, cur, lastPoll, readyLate, monPc, monTimer, deadFor, listening, inflight,
                 waitTimer, exitCode, exitReason, cfgVars, msgVars, wsVars, httpVars, normVars>>

\* health_task = asyncio.create_task(health_monitor()); web.Application();
\* app.router.add_routes(...), up to the first await (runner.setup());
\* start_time is not read again, elapsed is dropped
MainCreateApp ==
  /\ mainPc = "started"
  /\ add_routes(NB_PREFIX) = "ok"
  /\ monPc' = "check"
  /\ elapsed' = 0
  /\ mainPc' = "bind"
  /\ UNCHANGED <<procs, cur, lastPoll, readyLate, monTimer, deadFor, listening, inflight, waitTimer,
                 exitCode, exitReason, cfgVars, msgVars, wsVars, httpVars, normVars>>

\* add_routes raises: main() ends with the exception, asyncio.run cancels the
\* health task before it ever ran; nothing terminates the backend
MainRoutesFail ==
  /\ mainPc = "started"
  /\ add_routes(NB_PREFIX) # "ok"
  /\ monPc' = "cancelled"
  /\ elapsed' = 0
  /\ mainPc' = "exited"
  /\ exitCode' = 1
  /\ exitReason' = "route_error"
  /\ UNCHANGED <<procs, cur, lastPoll, readyLate, monTimer, deadFor, listening, inflight, waitTimer,
                 cfgVars, msgVars, wsVars, httpVars, normVars>>

\* await runner.setup(); await site.start(): the port is open
MainSiteStart ==
  /\ mainPc = "bind"
  /\ listening' = TRUE
  /\ mainPc' = "serving"
  /\ UNCHANGED <<procs, cur, elapsed, lastPoll, readyLate, monPc, monTimer, deadFor, inflight,
                 waitTimer, exitCode, exitReason, cfgVars, msgVars, wsVars, httpVars, normVars>>

\* site.start() raises OSError (the port is taken): main() ends with the
\* exception, asyncio.run cancels the health task
MainBindFails ==
  /\ mainPc = "bind"
  /\ monPc' = "cancelled"
  /\ mainPc' = "exited"
  /\ exitCode' = 1
  /\ exitReason' = "bind_error"
  /\ UNCHANGED <<procs, cur, elapsed, lastPoll, readyLate, monTimer, deadFor, listening, inflight,
                 waitTimer, cfgVars, msgVars, wsVars, httpVars, normVars>>

MainShutdown_NoCancel ==
  /\ mainPc = "serving"
  /\ procs' = [procs EXCEPT ![cur] = terminate(@)]
  /\ waitTimer' = 0
  /\ mainPc' = "wait"
  /\ exitReason' = "shutdown"
  /\ UNCHANGED <<cur, elapsed, lastPoll, readyLate, monPc, monTimer, deadFor, listening, inflight,
                 exitCode, cfgVars, msgVars, wsVars, httpVars, normVars>>

\* KeyboardInterrupt / CancelledError in the sleep loop; the finally block up
\* to the blocking wait: health_task.cancel(); comfyui_process.terminate()
MainShutdown ==
  /\ mainPc = "serving"
  /\ monPc' = "cancelled"
  /\ procs' = [procs EXCEPT ![cur] = terminate(@)]
  /\ waitTimer' = 0
  /\ mainPc' = "wait"
  /\ exitReason' = "shutdown"
  /\ UNCHANGED <<cur, elapsed, lastPoll, readyLate, monTimer, deadFor, listening, inflight,
                 exitCode, cfgVars, msgVars, wsVars, httpVars, normVars>>

\* comfyui_process.wait(timeout=5) returns: the process has exited
MainWaitReturns ==
  /\ mainPc = "wait"
  /\ Exited(CurProc)
  /\ mainPc' = "cleanup"
  /\ UNCHANGED <<procs, cur, elapsed, lastPoll, readyLate, monPc, monTimer, deadFor, listening,
                 inflight, waitTimer, exitCode, exitReason, cfgVars, msgVars, wsVars, httpVars,
                 normVars>>

\* a second of the blocking wait passes
MainWaitTick ==
  /\ mainPc = "wait"
  /\ ~Exited(CurProc)
  /\ waitTimer < GRACE
  /\ waitTimer' = waitTimer + 1
  /\ UNCHANGED <<mainPc, procs, cur, elapsed, lastPoll, readyLate, monPc, monTimer, deadFor,
                 listening, inflight, exitCode, exitReason, cfgVars, msgVars, wsVars, httpVars,
                 normVars>>

MainWaitTimeout_NoKill ==
  /\ mainPc = "wait"
  /\ ~Exited(CurProc)
  /\ waitTimer = GRACE
  /\ mainPc' = "cleanup"
  /\ UNCHANGED <<procs, cur, elapsed, lastPoll, readyLate, monPc, monTimer, deadFor, listening,
                 inflight, waitTimer, exitCode, exitReason, cfgVars, msgVars, wsVars, httpVars,
                 normVars>>

\* subprocess.TimeoutExpired: comfyui_process.kill()
MainWaitTimeout ==
  /\ mainPc = "wait"
  /\ ~Exited(CurProc)
  /\ waitTimer = GRACE
  /\ procs' = [procs EXCEPT ![cur] = kill(@)]
  /\ mainPc' = "cleanup"
  /\ UNCHANGED <<cur, elapsed, lastPoll, readyLate, monPc, monTimer, deadFor, listening, inflight,
                 waitTimer, exitCode, exitReason, cfgVars, msgVars, wsVars, httpVars, normVars>>

\* await runner.cleanup(), first part: site.stop() closes the listening socket
MainStopSites ==
  /\ mainPc = "cleanup"
  /\ listening' = FALSE
  /\ mainPc' = "closing"
  /\ UNCHANGED <<procs, cur, elapsed, lastPoll, readyLate, monPc, monTimer, deadFor, inflight,
                 waitTimer, exitCode, exitReason, cfgVars, msgVars, wsVars, httpVars, normVars>>

\* runner.cleanup(), second part: the open connections are shut down and
\* main() returns
MainCleanupDone ==
  /\ mainPc = "closing"
  /\ inflight' = 0
  /\ mainPc' = "exited"
  /\ exitCode' = 0
  /\ UNCHANGED <<procs, cur, elapsed, lastPoll, readyLate, monPc, monTimer, deadFor, listening,
                 waitTimer, exitReason, cfgVars, msgVars, wsVars, httpVars, normVars>>

\* ----------------------------------------------------------- health_monitor()
\* the monitor is at the top of its loop: just created, or its sleep is over
MonitorDue ==
  /\ LoopRuns
  /\ \/ monPc = "check"
     \/ monPc = "sleep" /\ monTimer = HEALTH_INTERVAL

\* a variant that replaces a running backend that does not answer HTTP
MonitorCheckAlive_Replace ==
  /\ MonitorDue
  /\ ~poll_is_not_None(CurProc)
  /\ \/ /\ CurProc.st = "starting" /\ Len(procs) < MaxLaunches
        /\ procs' = Append([procs EXCEPT ![cur] = terminate(@)], NewProc)
        /\ cur' = Len(procs) + 1
     \/ /\ CurProc.st # "starting"
        /\ UNCHANGED <<procs, cur>>
  /\ monPc' = "sleep"
  /\ monTimer' = 0
  /\ UNCHANGED <<mainPc, elapsed, lastPoll, readyLate, deadFor, listening, inflight,
                 waitTimer, exitCode, exitReason, cfgVars, msgVars, wsVars, httpVars, normVars>>

\* poll() is None: nothing to do; await asyncio.sleep(30)
MonitorCheckAlive ==
  /\ MonitorDue
  /\ ~poll_is_not_None(CurProc)
  /\ monPc' = "sleep"
  /\ monTimer' = 0
  /\ UNCHANGED <<mainPc, procs, cur, elapsed, lastPoll, readyLate, deadFor, listening, inflight,
                 waitTimer, exitCode, exitReason, cfgVars, msgVars, wsVars, httpVars, normVars>>

\* poll() is not None: comfyui_process = start_comfyui(); then the sleep
MonitorRestart ==
  /\ MonitorDue
  /\ poll_is_not_None(CurProc)
  /\ procs' = Append(procs, NewProc)
  /\ cur' = Len(procs) + 1
  /\ deadFor' = 0
  /\ monPc' = "sleep"
  /\ monTimer' = 0
  /\ UNCHANGED <<mainPc, elapsed, lastPoll, readyLate, listening, inflight, waitTimer, exitCode,
                 exitReason, cfgVars, msgVars, wsVars, httpVars, normVars>>

\* poll() is not None and subprocess.Popen raises: the exception ends the
\* health task; nothing awaits it, main() keeps serving
MonitorRestartFails ==
  /\ MonitorDue
  /\ poll_is_not_None(CurProc)
  /\ monPc' = "failed"
  /\ UNCHANGED <<mainPc, procs, cur, elapsed, lastPoll, readyLate, monTimer, deadFor, listening,
                 inflight, waitTimer, exitCode, exitReason, cfgVars, msgVars, wsVars, httpVars,
                 normVars>>

\* ------------------------------------------------------------- environment
\* the backend starts answering HTTP
BackendReady ==
  /\ cur > 0
  /\ mainPc # "exited"
  /\ CurProc.st = "starting"
  /\ procs' = [procs EXCEPT ![cur].st = "ready"]
  /\ UNCHANGED <<mainPc, cur, elapsed, lastPoll, readyLate, monPc, monTimer, deadFor, listening,
                 inflight, waitTimer, exitCode, exitReason, cfgVars, msgVars, wsVars, httpVars,
                 normVars>>

\* the backend process exits: on its own (a crash; the model lets all but the
\* last launch crash) or because it was sent SIGTERM
BackendExits ==
  /\ cur > 0
  /\ mainPc # "exited"
  /\ ~Exited(CurProc)
  /\ Len(procs) < MaxLaunches \/ CurProc.sig = "TERM"
  /\ procs' = [procs EXCEPT ![cur].st = "exited"]
  /\ UNCHANGED <<mainPc, cur, elapsed, lastPoll, readyLate, monPc, monTimer, deadFor, listening,
                 inflight, waitTimer, exitCode, exitReason, cfgVars, msgVars, wsVars, httpVars,
                 normVars>>

\* a second passes while the proxy serves and the monitor sleeps (or is gone);
\* deadFor counts the seconds the current backend has been dead
Tick ==
  /\ mainPc \in {"bind", "serving"}
  /\ monPc \in {"sleep", "failed"}
  /\ monPc = "sleep" => monTimer < HEALTH_INTERVAL
  /\ monPc = "failed" => deadFor <= HEALTH_INTERVAL
  /\ monTimer' = IF monPc = "sleep" THEN monTimer + 1 ELSE monTimer
  /\ deadFor' = IF Exited(CurProc) THEN Min(deadFor + 1, HEALTH_INTERVAL + 1) ELSE deadFor
  /\ UNCHANGED <<mainPc, procs, cur, elapsed, lastPoll, readyLate, monPc, listening, inflight,
                 waitTimer, exitCode, exitReason, cfgVars, msgVars, wsVars, httpVars, normVars>>

\* the listening socket hands a new client connection to a handler
Accept ==
  /\ listening
  /\ LoopRuns
  /\ inflight < MaxConns
  /\ inflight' = inflight + 1
  /\ UNCHANGED <<mainPc, procs, cur, elapsed, lastPoll, readyLate, monPc, monTimer, deadFor,
                 listening, waitTimer, exitCode, exitReason, cfgVars, msgVars, wsVars, httpVars,
                 normVars>>

\* a handler returns its response (or its relay session ends)
HandlerDone ==
  /\ LoopRuns
  /\ inflight > 0
  /\ inflight' = inflight - 1
  /\ UNCHANGED <<mainPc, procs, cur, elapsed, lastPoll, readyLate, monPc, monTimer, deadFor,
                 listening, waitTimer, exitCode, exitReason, cfgVars, msgVars, wsVars, httpVars,
                 normVars>>

Init ==
  /\ NB_PREFIX \in {<< >>, <<"/", "a">>}
  /\ SupIdle /\ WsIdle /\ HttpIdle /\ MsgIdle /\ NormIdle

Next ==
  \/ MainLaunch \/ MainLaunchFails \/ MainPoll \/ MainStartupTimeout \/ MainSleep
  \/ MainCreateApp \/ MainRoutesFail \/ MainSiteStart \/ MainBindFails
  \/ MainShutdown \/ MainWaitReturns \/ MainWaitTick \/ MainWaitTimeout
  \/ MainStopSites \/ MainCleanupDone
  \/ MonitorCheckAlive \/ MonitorRestart \/ MonitorRestartFails
  \/ BackendReady \/ BackendExits \/ Tick \/ Accept \/ HandlerDone

Spec == Init /\ [][Next]_vars

\* ------------------------------------------------- claims on main() and monitor
PollSucceeded == lastPoll.kind = "response" /\ lastPoll.status < 500

PortEverOpened == listening \/ inflight > 0 \/ mainPc \in {"serving", "wait", "cleanup", "closing"}

\* C1 as stated: the port is opened only after a successful readiness poll,
\* and when no poll succeeds before the startup timeout has elapsed the proxy
\* never opens the port: an open port means a poll succeeded inside the window.
C1_OpensOnlyInsideWindow ==
  PortEverOpened => (PollSucceeded /\ ~readyLate)

\* C1 amended: the port is opened, the monitor started and a client served
\* only after a poll returned a status < 500; a poll that fails when more than
\* STARTUP_TIMEOUT seconds have elapsed makes the proxy terminate the backend
\* and exit with status 1, the port never opened and the monitor never
\* started; no poll starts later than STARTUP_TIMEOUT + POLL_SLEEP, so the
\* last poll, which is honoured if it succeeds, ends READY_TIMEOUT later at most.
C1_StartupGating ==
  /\ (PortEverOpened \/ monPc # "none" \/ mainPc \in {"started", "bind"}) => PollSucceeded
  /\ mainPc = "poll" => elapsed <= STARTUP_TIMEOUT + POLL_SLEEP
  /\ mainPc \in {"timeout_check", "started"} =>
       elapsed <= STARTUP_TIMEOUT + POLL_SLEEP + READY_TIMEOUT
  /\ exitReason = "startup_timeout" =>
       /\ mainPc = "exited" /\ exitCode = 1
       /\ ~PollSucceeded /\ elapsed > STARTUP_TIMEOUT
       /\ ~listening /\ inflight = 0 /\ monPc = "none"
       /\ Exited(CurProc) \/ CurProc.sig = "TERM"

\* the backend was up but answered 5xx until the window was over
C1_Witness ==
  /\ exitReason = "startup_timeout"
  /\ lastPoll.kind = "response"
  /\ CurProc.st = "ready" /\ CurProc.sig = "TERM"

\* C2: while the proxy serves, a backend that has exited is replaced by a
\* newly launched current process at the monitor's next check, so the
\* current backend is never dead for longer than one polling interval.
C2_RestartWithinInterval ==
  mainPc = "serving" => deadFor <= HEALTH_INTERVAL

\* C7: shutdown order. The health monitor is cancelled and the backend is
\* signalled only after the proxy has stopped accepting connections and the
\* in-flight forwarding is over; the listening socket is released last.
C7_ShutdownOrder ==
  (exitReason = "shutdown" /\ (monPc = "cancelled" \/ CurProc.sig # "none" \/ Exited(CurProc)))
    => (~listening /\ inflight = 0)

\* C8: shutdown asks the current backend to terminate (nothing is sent to a
\* process that has already exited), force-kills it only when the 5 s grace
\* period ran out without it exiting, and in either case the current backend
\* is not running once the wait is over, and the proxy ends with status 0.
C8_BackendTermination ==
  /\ (exitReason = "shutdown" /\ mainPc = "wait") => (Exited(CurProc) \/ CurProc.sig = "TERM")
  /\ (exitReason = "shutdown" /\ mainPc \in {"cleanup", "closing", "exited"}) => Exited(CurProc)
  /\ \A i \in 1..Len(procs) :
       procs[i].sig = "KILL" => (i = cur /\ exitReason = "shutdown" /\ waitTimer = GRACE)
  /\ (exitReason = "shutdown" /\ CurProc.sig = "none") => (Exited(CurProc) /\ waitTimer = 0)
  /\ (exitReason = "shutdown" /\ mainPc = "exited") => exitCode = 0

\* a backend that ignored SIGTERM for the whole grace period was killed
C8_Witness ==
  /\ exitReason = "shutdown" /\ mainPc = "exited"
  /\ CurProc.sig = "KILL" /\ waitTimer = GRACE

C17_Inv ==
  /\ Cardinality({i \in 1..Len(procs) : ~Exited(procs[i])}) <= 1
  /\ cur = Len(procs)
  /\ (mainPc # "init" /\ exitReason # "launch_error") => cur >= 1

\* a launch happens only with no running current process, and the handle
\* moves to the new process in that step and in no other
C17_Step ==
  /\ Len(procs') > Len(procs) =>
       /\ Len(procs') = Len(procs) + 1
       /\ cur = 0 \/ Exited(CurProc)
       /\ cur' = Len(procs')
  /\ cur' # cur => Len(procs') > Len(procs)

\* C17: at most one launched backend process is running at any time; a new
\* one is launched only when the current one has exited, the handle refers to
\* the new process from that same step, and after startup there is always a
\* current handle.
C17_SingleCurrentBackend == []C17_Inv /\ [][C17_Step]_vars

\* the first backend crashed while the proxy was serving and the monitor
\* launched the second, which is the current one and ready
C17_Witness ==
  /\ mainPc = "serving" /\ Len(procs) = 2 /\ cur = 2
  /\ Exited(procs[1]) /\ procs[2].st = "ready"

\* C18 as stated: from its start until shutdown cancels it the health monitor
\* is in its loop, checking or sleeping, whatever a check or a restart
\* attempt ended in.
C18_MonitorKeepsRunning ==
  mainPc \in {"bind", "serving"} => monPc \in {"check", "sleep"}

\* C20 as stated: when the proxy has exited, every backend process it
\* launched has exited or has at least been sent a signal to terminate.
C20_NoOrphanedBackend ==
  mainPc = "exited" =>
    \A i \in 1..Len(procs) : Exited(procs[i]) \/ procs[i].sig # "none"

\* a step taken once shutdown has begun, the step that begins it included
C21_Step ==
  (exitReason = "shutdown" \/ exitReason' = "shutdown") =>
    /\ Len(procs') = Len(procs)
    /\ cur' = cur
    /\ \A i \in 1..Len(procs) : Exited(procs[i]) => procs'[i] = procs[i]

\* C21: once main() is in its shutdown sequence no backend process is
\* launched any more, whatever the monitor was about to do when shutdown
\* began; the process shutdown terminates is the last one launched, and it
\* stays the current one to the end.
C21_NoRestartAfterShutdown ==
  /\ [](exitReason = "shutdown" => cur = Len(procs))
  /\ [][C21_Step]_vars

\* the monitor's sleep was over when shutdown began, the backend died of the
\* SIGTERM, the event loop ran again during runner.cleanup(), and the proxy
\* ended with that process as the only one ever launched
C21_Witness ==
  /\ exitReason = "shutdown" /\ mainPc = "exited"
  /\ monTimer = HEALTH_INTERVAL
  /\ Len(procs) = 1 /\ Exited(CurProc) /\ CurProc.sig = "TERM"

\* a step of the monitor: main() does not move and the monitor is not being
\* created or cancelled by it
C22_MonitorStep == mainPc' = mainPc /\ monPc' # monPc

\* what the monitor may do, and what a restart leaves alone
C22_Step ==
  /\ (Len(procs') > Len(procs) /\ cur >= 1) =>
       /\ Exited(CurProc)
       /\ listening' = listening /\ mainPc' = mainPc /\ inflight' = inflight
       /\ \A i \in 1..Len(procs) : procs'[i] = procs[i]
  /\ C22_MonitorStep =>
       \A i \in 1..Len(procs) : procs'[i] = procs[i]
  /\ \A i \in 1..Len(procs) : procs'[i].sig # procs[i].sig => mainPc' # mainPc

\* the port stays open while the proxy serves, whatever state the current
\* backend is in, and a connection is taken whenever there is room for one
C22_Accepting ==
  mainPc = "serving" =>
    /\ listening
    /\ inflight < MaxConns => ENABLED Accept

\* C22: the monitor launches a backend only when the current process has
\* exited; it never signals or replaces a running process, answering HTTP or
\* not; a restart leaves the listening socket and the connections in flight
\* alone, and the proxy accepts connections without waiting for the new
\* backend to be ready.
C22_RestartOnExitOnly == []C22_Accepting /\ [][C22_Step]_vars

\* the first backend crashed and was replaced; the second is not answering
\* HTTP yet, was not signalled, and the proxy serves with connections in
\* flight
C22_Witness ==
  /\ mainPc = "serving" /\ listening /\ inflight = MaxConns
  /\ Len(procs) = 2 /\ cur = 2
  /\ procs[1] = [st |-> "exited", sig |-> "none"]
  /\ procs[2] = [st |-> "starting", sig |-> "none"]
  /\ monPc = "sleep" /\ monTimer = HEALTH_INTERVAL

\* ============================================================= websocket_proxy
Dirs == {"c2s", "s2c"}
Payloads == {"x", "y"}

\* the TEXT and BINARY messages an endpoint can send
DataFrames == [type : {"TEXT", "BINARY"}, data : Payloads]

Running(t) == t \in {"recv", "send"}

\* the endpoint a direction reads from and the one it writes to
SourceOpen(d) == IF d = "c2s" THEN wsClient = "open" ELSE wsServer = "open"
DestOpen(d) == IF d = "c2s" THEN wsServer = "open" ELSE wsClient = "open"

FramesRead == Len(recv["c2s"]) + Len(recv["s2c"])

forward_msg_AllText(msg) == [type |-> "TEXT", data |-> msg.data]

\* TEXT goes out through send_str(msg.data), BINARY through send_bytes(msg.data)
forward_msg(msg) ==
  IF msg.type = "TEXT" THEN [type |-> "TEXT", data |-> msg.data]
  ELSE [type |-> "BINARY", data |-> msg.data]

\* task.cancel() on a task that has not finished
cancel(t) == IF Running(t) THEN "cancelled" ELSE t

\* a client asks for the upgrade
WsArrive ==
  /\ wsPc = "idle"
  /\ wsPc' = "prepare"
  /\ UNCHANGED <<wsClient, wsServer, task, recv, dlv, connFailed, cfgVars, msgVars, supVars,
                 httpVars, normVars>>

\* await ws_client.prepare(request): the upgrade is accepted
WsPrepare ==
  /\ wsPc = "prepare"
  /\ wsClient' = "open"
  /\ wsPc' = "connect"
  /\ UNCHANGED <<wsServer, task, recv, dlv, connFailed, cfgVars, msgVars, supVars, httpVars,
                 normVars>>

\* prepare() raises (a bad handshake): outside the try, the handler ends with
\* the exception and no client connection was made
WsPrepareFails ==
  /\ wsPc = "prepare"
  /\ wsPc' = "raised"
  /\ UNCHANGED <<wsClient, wsServer, task, recv, dlv, connFailed, cfgVars, msgVars, supVars,
                 httpVars, normVars>>

\* session.ws_connect(...) succeeds
WsConnect ==
  /\ wsPc = "connect"
  /\ wsServer' = "open"
  /\ wsPc' = "spawn"
  /\ UNCHANGED <<wsClient, task, recv, dlv, connFailed, cfgVars, msgVars, supVars, httpVars,
                 normVars>>

\* session.ws_connect(...) raises (refused, or the attempt times out): caught
\* by except Exception, on to the finally block
WsConnectFails ==
  /\ wsPc = "connect"
  /\ connFailed' = TRUE
  /\ wsPc' = "finally"
  /\ UNCHANGED <<wsClient, wsServer, task, recv, dlv, cfgVars, msgVars, supVars, httpVars,
                 normVars>>

\* the two asyncio.create_task calls, then await asyncio.wait(FIRST_COMPLETED)
WsSpawn ==
  /\ wsPc = "spawn"
  /\ task' = [d \in Dirs |-> "recv"]
  /\ wsPc' = "wait"
  /\ UNCHANGED <<wsClient, wsServer, recv, dlv, connFailed, cfgVars, msgVars, supVars, httpVars,
                 normVars>>

\* async for msg in source: a TEXT or BINARY message arrives
FwdRecv(d) ==
  /\ task[d] = "recv"
  /\ SourceOpen(d)
  /\ FramesRead < MaxFrames
  /\ \E f \in DataFrames : recv' = [recv EXCEPT ![d] = Append(@, f)]
  /\ task' = [task EXCEPT ![d] = "send"]
  /\ UNCHANGED <<wsPc, wsClient, wsServer, dlv, connFailed, cfgVars, msgVars, supVars, httpVars,
                 normVars>>

\* await dest.send_str(msg.data) / send_bytes(msg.data) of the message read
FwdSend(d) ==
  /\ task[d] = "send"
  /\ DestOpen(d)
  /\ dlv' = [dlv EXCEPT ![d] = Append(@, forward_msg(recv[d][Len(recv[d])]))]
  /\ task' = [task EXCEPT ![d] = "recv"]
  /\ UNCHANGED <<wsPc, wsClient, wsServer, recv, connFailed, cfgVars, msgVars, supVars, httpVars,
                 normVars>>

\* the send raises (the destination is closing or gone): logged, the loop ends
FwdSendFails(d) ==
  /\ task[d] = "send"
  /\ task' = [task EXCEPT ![d] = "done"]
  /\ UNCHANGED <<wsPc, wsClient, wsServer, recv, dlv, connFailed, cfgVars, msgVars, supVars,
                 httpVars, normVars>>

\* the source delivers CLOSE or ERROR (aiohttp then marks that endpoint
\* closed), or the iteration raises: the loop ends
FwdRecvEnd(d) ==
  /\ task[d] = "recv"
  /\ \E closes \in BOOLEAN :
       /\ closes => SourceOpen(d)
       /\ wsClient' = IF closes /\ d = "c2s" THEN "closed" ELSE wsClient
       /\ wsServer' = IF closes /\ d = "s2c" THEN "closed" ELSE wsServer
  /\ task' = [task EXCEPT ![d] = "done"]
  /\ UNCHANGED <<wsPc, recv, dlv, connFailed, cfgVars, msgVars, supVars, httpVars, normVars>>

WsWaitReturns_NoCancel ==
  /\ wsPc = "wait"
  /\ \E d \in Dirs : task[d] = "done"
  /\ wsPc' = "exit_ws"
  /\ UNCHANGED <<wsClient, wsServer, task, recv, dlv, connFailed, cfgVars, msgVars, supVars,
                 httpVars, normVars>>

\* asyncio.wait returns because a task is done; for task in pending: task.cancel()
WsWaitReturns ==
  /\ wsPc = "wait"
  /\ \E d \in Dirs : task[d] = "done"
  /\ task' = [d \in Dirs |-> cancel(task[d])]
  /\ wsPc' = "exit_ws"
  /\ UNCHANGED <<wsClient, wsServer, recv, dlv, connFailed, cfgVars, msgVars, supVars, httpVars,
                 normVars>>

\* the handler itself is cancelled while it waits (the client's connection
\* is lost, or the server shuts down): CancelledError leaves the two async
\* with blocks, which closes ws_server, and reaches the finally block
WsHandlerCancelled ==
  /\ wsPc = "wait"
  /\ wsServer' = "closed"
  /\ wsPc' = "finally"
  /\ UNCHANGED <<wsClient, task, recv, dlv, connFailed, cfgVars, msgVars, supVars, httpVars,
                 normVars>>

\* leaving async with session.ws_connect(...) as ws_server: ws_server.close()
WsExitServerCtx ==
  /\ wsPc = "exit_ws"
  /\ wsServer' = "closed"
  /\ wsPc' = "finally"
  /\ UNCHANGED <<wsClient, task, recv, dlv, connFailed, cfgVars, msgVars, supVars, httpVars,
                 normVars>>

WsFinally_NoClose ==
  /\ wsPc = "finally"
  /\ task' = [d \in Dirs |-> cancel(task[d])]
  /\ wsPc' = "returned"
  /\ UNCHANGED <<wsClient, wsServer, recv, dlv, connFailed, cfgVars, msgVars, supVars, httpVars,
                 normVars>>

\* finally: cancel the tasks that are not done; close ws_client if it is not
\* closed; return ws_client
WsFinally ==
  /\ wsPc = "finally"
  /\ task' = [d \in Dirs |-> cancel(task[d])]
  /\ wsClient' = "closed"
  /\ wsPc' = "returned"
  /\ UNCHANGED <<wsServer, recv, dlv, connFailed, cfgVars, msgVars, supVars, httpVars, normVars>>

InitWS ==
  /\ NB_PREFIX \in {<< >>, <<"/", "a">>}
  /\ SupIdle /\ WsIdle /\ HttpIdle /\ MsgIdle /\ NormIdle

NextWS ==
  \/ WsArrive \/ WsPrepare \/ WsPrepareFails \/ WsConnect \/ WsConnectFails \/ WsSpawn
  \/ \E d \in Dirs : FwdRecv(d)
  \/ \E d \in Dirs : FwdSend(d)
  \/ \E d \in Dirs : FwdSendFails(d)
  \/ \E d \in Dirs : FwdRecvEnd(d)
  \/ WsWaitReturns \/ WsHandlerCancelled \/ WsExitServerCtx \/ WsFinally

SpecWS == InitWS /\ [][NextWS]_vars

\* the event loop keeps running the handler: a connect attempt ends (it is
\* bounded by its timeout), and each step of the handler after a task has
\* finished is taken
FairWS ==
  /\ WF_vars(WsConnect \/ WsConnectFails)
  /\ WF_vars(WsSpawn)
  /\ WF_vars(WsWaitReturns)
  /\ WF_vars(WsExitServerCtx)
  /\ WF_vars(WsFinally)

FairSpecWS == SpecWS /\ FairWS

\* ---------------------------------------------------- claims on the relay
\* exactly one of the two endpoints is open
HalfOpen == (wsClient = "open") # (wsServer = "open")

SomeTaskDone == \E d \in Dirs : task[d] = "done"

C3_TeardownInv ==
  /\ wsPc = "returned" =>
       /\ wsClient = "closed" /\ wsServer # "open"
       /\ \A d \in Dirs : ~Running(task[d])
  /\ wsPc = "exit_ws" =>
       /\ SomeTaskDone
       /\ \A d \in Dirs : task[d] \in {"done", "cancelled"}

\* C3: once a forwarding direction has ended, the other one is cancelled and
\* the handler returns with both connections closed and no task running; a
\* session with exactly one endpoint open does not stay that way.
C3_Teardown ==
  /\ []C3_TeardownInv
  /\ SomeTaskDone ~> (wsPc = "returned")
  /\ HalfOpen ~> ~HalfOpen

\* the backend closed its side while the client direction was still reading:
\* that direction was cancelled and the client connection closed
C3_Witness ==
  /\ wsPc = "returned"
  /\ task["s2c"] = "done" /\ task["c2s"] = "cancelled"
  /\ wsClient = "closed" /\ wsServer = "closed"
  /\ Len(dlv["s2c"]) > 0

\* C5: when the connection to the backend cannot be made, no forwarding task
\* is ever started, no backend connection exists, and the handler returns
\* with the client connection closed.
C5_ConnectFailure ==
  connFailed =>
    /\ \A d \in Dirs : task[d] = "none" /\ recv[d] = << >> /\ dlv[d] = << >>
    /\ wsServer = "none"
    /\ wsPc \in {"finally", "returned"}
    /\ wsPc = "returned" => wsClient = "closed"

C5_Witness ==
  connFailed /\ wsPc = "returned" /\ wsClient = "closed"

\* C6: in each direction the frames delivered are a prefix of the TEXT/BINARY
\* frames read from the source, same order, type and payload, at most the
\* one frame being sent behind.
C6_OrderAndFidelity ==
  \A d \in Dirs :
    /\ IsPrefixOf(dlv[d], recv[d])
    /\ Len(recv[d]) - Len(dlv[d]) <= 1
    /\ task[d] = "recv" => dlv[d] = recv[d]

\* a text frame then a binary frame with another payload went one way and a
\* frame went the other way
C6_Witness ==
  /\ dlv["c2s"] = <<[type |-> "TEXT", data |-> "x"], [type |-> "BINARY", data |-> "y"]>>
  /\ Len(dlv["s2c"]) = 1

\* =============================================================== proxy_handler
Methods == {"GET", "POST"}
BackendStatuses == {200, 302, 404, 500}
NoResp == [status |-> 0, body |-> "none"]

\* values of the client's Accept header, as lists of media types; the empty
\* list is headers.get('Accept', '') of a request without the header
AcceptValues == {<< >>, <<"text/html">>, <<"application/json">>,
                 <<"text/html", "application/json">>}

\* 'application/json' in request.headers.get('Accept', '')
accepts_json(accept) == \E i \in 1..Len(accept) : accept[i] = "application/json"

\* timeout=HTTP_TIMEOUT of session.request: the whole backend call, the
\* reading of the response body included, is abandoned after that long
RequestTimeout == HTTP_TIMEOUT

error_response_TextOnly(accept) == [status |-> 500, body |-> "text_error"]

\* the except branch: a JSON body if Accept holds application/json, text otherwise
error_response(accept) ==
  [status |-> 500, body |-> IF accepts_json(accept) THEN "json_error" ELSE "text_error"]

\* the proxy is serving: the state main() is in after site.start(), with the
\* first backend process ready
SupServing ==
  /\ mainPc = "serving" /\ procs = <<[st |-> "ready", sig |-> "none"]>> /\ cur = 1
  /\ elapsed = 0 /\ lastPoll = [kind |-> "response", status |-> 200] /\ readyLate = FALSE
  /\ monPc = "check" /\ monTimer = 0 /\ deadFor = 0
  /\ listening = TRUE /\ inflight = 0 /\ waitTimer = 0
  /\ exitCode = -1 /\ exitReason = "none"

\* a request reaches the handler; hPrev keeps the outcome of the request
\* before it
HttpArrive ==
  /\ hPc \in {"idle", "done"}
  /\ listening
  /\ \E m \in Methods, acc \in AcceptValues : hMethod' = m /\ hAccept' = acc
  /\ hPrev' = IF hPc = "done"
              THEN [target |-> hTarget, status |-> hResp.status, failure |-> hFailure]
              ELSE hPrev
  /\ hWaited' = 0 /\ hFailure' = "none" /\ hResp' = NoResp /\ hResponses' = 0
  /\ hEscaped' = "none" /\ hTarget' = 0 /\ hAttempts' = 0
  /\ hPc' = "read"
  /\ UNCHANGED <<cfgVars, msgVars, supVars, wsVars, normVars>>

\* data = await request.read() if request.method != 'GET' else None
HttpReadBody ==
  /\ hPc = "read"
  /\ hPc' = "call"
  /\ UNCHANGED <<hMethod, hAccept, hWaited, hFailure, hResp, hResponses, hEscaped, hTarget,
                 hAttempts, hPrev, cfgVars, msgVars, supVars, wsVars, normVars>>

\* request.read() raises HTTPRequestEntityTooLarge (a body above
\* client_max_size): the line is outside the try, the exception leaves the
\* handler and aiohttp answers 413; no backend call is made
HttpReadBodyFails ==
  /\ hPc = "read"
  /\ hMethod # "GET"
  /\ hEscaped' = "HTTPRequestEntityTooLarge"
  /\ hResp' = [status |-> 413, body |-> "framework"]
  /\ hPc' = "respond"
  /\ UNCHANGED <<hMethod, hAccept, hWaited, hFailure, hResponses, hTarget, hAttempts, hPrev,
                 cfgVars, msgVars, supVars, wsVars, normVars>>

\* time passes while the backend call is pending
HttpWait ==
  /\ hPc \in {"call", "body"}
  /\ hWaited < RequestTimeout
  /\ hWaited' = Min(hWaited + HttpTick, RequestTimeout)
  /\ UNCHANGED <<hPc, hMethod, hAccept, hFailure, hResp, hResponses, hEscaped, hTarget,
                 hAttempts, hPrev, cfgVars, msgVars, supVars, wsVars, normVars>>

\* session.request(...) connects to 127.0.0.1:COMFY_PORT: the process that
\* listens there, the current backend once it is ready, takes the connection
HttpConnect ==
  /\ hPc = "call"
  /\ hTarget = 0
  /\ hWaited < RequestTimeout
  /\ CurProc.st = "ready"
  /\ hTarget' = cur
  /\ hAttempts' = hAttempts + 1
  /\ UNCHANGED <<hPc, hMethod, hAccept, hWaited, hFailure, hResp, hResponses, hEscaped, hPrev,
                 cfgVars, msgVars, supVars, wsVars, normVars>>

\* session.request(...) returns the backend's status line and headers
HttpBackendAnswers ==
  /\ hPc = "call"
  /\ hTarget # 0
  /\ procs[hTarget].st = "ready"
  /\ hWaited < RequestTimeout
  /\ \E st \in BackendStatuses : hResp' = [status |-> st, body |-> "backend"]
  /\ hPc' = "body"
  /\ UNCHANGED <<hMethod, hAccept, hWaited, hFailure, hResponses, hEscaped, hTarget, hAttempts,
                 hPrev, cfgVars, msgVars, supVars, wsVars, normVars>>

\* body = await resp.read(); web.Response(status=resp.status, body=body)
HttpBodyRead ==
  /\ hPc = "body"
  /\ procs[hTarget].st = "ready"
  /\ hWaited < RequestTimeout
  /\ hPc' = "respond"
  /\ UNCHANGED <<hMethod, hAccept, hWaited, hFailure, hResp, hResponses, hEscaped, hTarget,
                 hAttempts, hPrev, cfgVars, msgVars, supVars, wsVars, normVars>>

\* a variant that calls the backend again after a failure
HttpBackendFails_Retry ==
  /\ hPc \in {"call", "body"}
  /\ hAttempts < 3
  /\ \/ /\ hPc = "call" /\ hTarget = 0 /\ CurProc.st # "ready"
        /\ hAttempts' = hAttempts + 1
     \/ /\ hTarget # 0
        /\ hAttempts' = hAttempts
  /\ hTarget' = 0
  /\ hResp' = NoResp
  /\ hPc' = "call"
  /\ UNCHANGED <<hMethod, hAccept, hWaited, hFailure, hResponses, hEscaped, hPrev, cfgVars,
                 msgVars, supVars, wsVars, normVars>>

\* the backend call raises: connection refused (nothing listens on the
\* backend port), or the connection that was made is reset (by the backend,
\* or because its process died); except Exception builds the error response
HttpBackendFails ==
  /\ hPc \in {"call", "body"}
  /\ \/ /\ hPc = "call" /\ hTarget = 0 /\ CurProc.st # "ready"
        /\ hFailure' = "refused"
        /\ hAttempts' = hAttempts + 1
     \/ /\ hTarget # 0
        /\ hFailure' = "reset"
        /\ hAttempts' = hAttempts
  /\ hResp' = error_response(hAccept)
  /\ hPc' = "respond"
  /\ UNCHANGED <<hMethod, hAccept, hWaited, hResponses, hEscaped, hTarget, hPrev, cfgVars,
                 msgVars, supVars, wsVars, normVars>>

HttpTimeout_Escapes ==
  /\ hPc \in {"call", "body"}
  /\ hWaited = RequestTimeout
  /\ hFailure' = "timeout"
  /\ hEscaped' = "TimeoutError"
  /\ hResp' = NoResp
  /\ hPc' = "done"
  /\ UNCHANGED <<hMethod, hAccept, hWaited, hResponses, hTarget, hAttempts, hPrev, cfgVars,
                 msgVars, supVars, wsVars, normVars>>

\* the timeout fires: asyncio.TimeoutError, caught by except Exception
HttpTimeout ==
  /\ hPc \in {"call", "body"}
  /\ hWaited = RequestTimeout
  /\ hFailure' = "timeout"
  /\ hResp' = error_response(hAccept)
  /\ hPc' = "respond"
  /\ UNCHANGED <<hMethod, hAccept, hWaited, hResponses, hEscaped, hTarget, hAttempts, hPrev,
                 cfgVars, msgVars, supVars, wsVars, normVars>>

\* the response goes to the client
HttpRespond ==
  /\ hPc = "respond"
  /\ hResponses' = hResponses + 1
  /\ hPc' = "done"
  /\ UNCHANGED <<hMethod, hAccept, hWaited, hFailure, hResp, hEscaped, hTarget, hAttempts,
                 hPrev, cfgVars, msgVars, supVars, wsVars, normVars>>

\* the proxy is serving under a prefix, no request has arrived yet
InitHTTP ==
  /\ NB_PREFIX = <<"/", "a">>
  /\ SupServing /\ WsIdle /\ HttpIdle /\ MsgIdle /\ NormIdle

\* the handler, and beside it the backend process and the health monitor's
\* first check
NextHTTP ==
  \/ HttpArrive \/ HttpReadBody \/ HttpReadBodyFails \/ HttpWait \/ HttpConnect
  \/ HttpBackendAnswers \/ HttpBodyRead \/ HttpBackendFails \/ HttpTimeout \/ HttpRespond
  \/ BackendExits \/ BackendReady
  \/ MonitorCheckAlive \/ MonitorRestart \/ MonitorRestartFails

SpecHTTP == InitHTTP /\ [][NextHTTP]_vars

\* the event loop runs the handler, time passes and the timer fires
FairHTTP ==
  /\ WF_vars(HttpReadBody \/ HttpReadBodyFails)
  /\ WF_vars(HttpWait)
  /\ WF_vars(HttpTimeout)
  /\ WF_vars(HttpRespond)

FairSpecHTTP == SpecHTTP /\ FairHTTP

\* ------------------------------------------------- claims on the HTTP handler
C4_FailureInv ==
  /\ hWaited <= HTTP_TIMEOUT
  /\ hFailure # "none" =>
       /\ hPc \in {"respond", "done"}
       /\ hEscaped = "none"
       /\ hResp.status = 500
  /\ hResponses <= 1
  /\ hPc = "done" => hResponses = 1

\* C4: a failed backend call (refused, reset, timeout) is answered with
\* status 500 and no exception of it leaves the handler; the wait for the
\* backend never exceeds HTTP_TIMEOUT; every request gets exactly one response.
C4_FailureConversion ==
  /\ []C4_FailureInv
  /\ (hPc = "read") ~> (hPc = "done")

\* the backend never answered: 500 after the full timeout
C4_Witness ==
  /\ hPc = "done" /\ hFailure = "timeout" /\ hWaited = HTTP_TIMEOUT
  /\ hResp.status = 500 /\ hResponses = 1

\* C16: a backend failure is answered with status 500 whatever the Accept
\* header; the body is JSON when Accept holds 'application/json' and plain
\* text otherwise, a missing Accept header included.
C16_ErrorBodySelection ==
  (hFailure # "none" /\ hPc \in {"respond", "done"}) =>
    /\ hResp.status = 500
    /\ ("application/json" \in {hAccept[i] : i \in 1..Len(hAccept)}) => hResp.body = "json_error"
    /\ ("application/json" \notin {hAccept[i] : i \in 1..Len(hAccept)}) => hResp.body = "text_error"

\* a refused connection, Accept lists text/html before application/json
C16_Witness ==
  /\ hPc = "done" /\ hFailure = "refused"
  /\ hAccept = <<"text/html", "application/json">>
  /\ hResp = [status |-> 500, body |-> "json_error"]

C19_Inv ==
  /\ hAttempts <= 1
  /\ hTarget # 0 => hAttempts = 1 /\ hTarget \in 1..Len(procs)
  /\ (hFailure # "none" /\ hPc \in {"respond", "done"}) => hResp.status = 500
  /\ hFailure = "refused" => hTarget = 0
  /\ hResp.body = "backend" => hTarget # 0

\* one step of the handler within one request
C19_Step ==
  (hPc' = "read" /\ hPc # "read") \/
    /\ hAttempts' >= hAttempts
    /\ hTarget # 0 => hTarget' = hTarget
    /\ (hTarget = 0 /\ hTarget' # 0) => (hTarget' = cur /\ CurProc.st = "ready")
    /\ (hTarget = 0 /\ hPc = "call" /\ hPc' # "call" /\ hWaited < RequestTimeout) =>
         (CurProc.st # "ready" /\ hFailure' = "refused")
    /\ hFailure # "none" =>
         /\ hFailure' = hFailure /\ hResp' = hResp
         /\ hAttempts' = hAttempts /\ hTarget' = hTarget
    /\ (hResp'.body = "backend" /\ hResp' # hResp) => procs[hTarget].st = "ready"

\* C19: a request makes at most one backend attempt, to the process that is
\* current and ready when it connects; a request that finds no backend, or
\* whose backend dies under it, is answered 500, keeps that answer and is
\* never sent again, to a new process or otherwise; an answer comes only from
\* the process the request was connected to.
C19_NoReplay == []C19_Inv /\ [][C19_Step]_vars

\* the request before this one went to process 1 and failed; this one was
\* issued after process 2 had become ready and has its answer from it
C19_Witness ==
  /\ hPrev.target = 1 /\ hPrev.failure = "reset" /\ hPrev.status = 500
  /\ Exited(procs[1])
  /\ hPc = "done" /\ hTarget = 2 /\ hAttempts = 1
  /\ hFailure = "none" /\ hResp = [status |-> 200, body |-> "backend"]

\* ------------------------------------- proxy_handler(): rewriting one message
\* Strings here are sequences of tokens: a token is one character, or one
\* percent-encoded octet such as "%26".

RECURSIVE SeqsOver(_, _)
SeqsOver(S, n) == IF n = 0 THEN {<< >>}
                  ELSE LET shorter == SeqsOver(S, n - 1)
                       IN  shorter \cup {Append(s, c) : s \in {t \in shorter : Len(t) = n - 1}, c \in S}

\* ---- the query string (lines 59-63)
QueryTokens == {"x", "1", "&", "=", "%26", "%3D", "%20", "+"}

\* GET <prefix>/foo?x=1&y=2 of the round-trip example, with x for every key
QueryExample == <<"x", "=", "1", "&", "x", "=", "1">>

Queries == SeqsOver(QueryTokens, MaxQueryLen) \cup {QueryExample}

\* str.split(sep): the pieces of s between the separators
RECURSIVE split(_, _)
split(s, sep) ==
  IF \A i \in 1..Len(s) : s[i] # sep THEN <<s>>
  ELSE LET i == CHOOSE k \in 1..Len(s) : s[k] = sep /\ \A j \in 1..(k - 1) : s[j] # sep
       IN  <<SubSeq(s, 1, i - 1)>> \o split(SubSeq(s, i + 1, Len(s)), sep)

\* unquote of one token of a query string: '+' and %20 are a space, %XX is
\* the octet it encodes
unquote_token(t) == CASE t = "%26" -> "&"
                      [] t = "%3D" -> "="
                      [] t = "%20" -> " "
                      [] t = "+"   -> " "
                      [] OTHER     -> t

unquote_plus(s) == [i \in 1..Len(s) |-> unquote_token(s[i])]

\* one 'name=value' piece: split at the first '=', a piece without '=' has
\* the empty value
name_value(piece) ==
  LET nv == split(piece, "=")
      name == nv[1]
      value == SubSeq(piece, Len(name) + 2, Len(piece))
  IN  [k |-> unquote_plus(name), v |-> unquote_plus(value)]

\* request.rel_url.query: the decoded (name, value) pairs in order, empty
\* pieces skipped, blank values kept
RECURSIVE parse_pieces(_)
parse_pieces(pieces) ==
  IF pieces = << >> THEN << >>
  ELSE IF Head(pieces) = << >> THEN parse_pieces(Tail(pieces))
  ELSE <<name_value(Head(pieces))>> \o parse_pieces(Tail(pieces))

rel_url_query(raw) == parse_pieces(split(raw, "&"))

\* '&'.join(f"{k}={v}" for k, v in params.items())
RECURSIVE join_params(_)
join_params(params) ==
  IF params = << >> THEN << >>
  ELSE LET kv == Head(params).k \o <<"=">> \o Head(params).v
       IN  IF Len(params) = 1 THEN kv ELSE kv \o <<"&">> \o join_params(Tail(params))

\* the query part of target_url: nothing is appended when params is empty
target_query(raw) ==
  LET params == rel_url_query(raw)
  IN  IF params = << >> THEN << >> ELSE join_params(params)

\* lines 59-63 for one request
BuildTargetUrl ==
  /\ mKind = "query" /\ mPc = "input"
  /\ mTargetQuery' = target_query(mQuery)
  /\ mPc' = "done"
  /\ UNCHANGED <<mKind, mQuery, mParserCanon, mReqHeaders, mOutHeaders, mBackendResp,
                 mClientResp, mMethod, mPath, mHandler>>
  /\ UNCHANGED <<cfgVars, supVars, wsVars, httpVars, normVars>>

\* C12 as stated: the query string sent to the backend is byte-for-byte the
\* query string the client sent.
C12_QueryPreserved ==
  (mKind = "query" /\ mPc = "done") => mTargetQuery = mQuery

\* ---- the request headers (lines 70-74)
\* header names as clients write them, in two letter cases
RequestNames == {"Host", "host", "Content-Length", "content-length", "Accept"}
HeaderValues == {"v1", "v2"}
RequestFields == [name : RequestNames, value : HeaderValues]

\* f'127.0.0.1:{COMFY_PORT}'
BackendHost == "127.0.0.1:8188"

\* str.lower() on a header name
lower(name) == CASE name \in {"Host", "host"} -> "host"
                 [] name \in {"Content-Length", "content-length"} -> "content-length"
                 [] name \in {"Transfer-Encoding", "transfer-encoding"} -> "transfer-encoding"
                 [] name \in {"Set-Cookie", "set-cookie"} -> "set-cookie"
                 [] name \in {"Location", "location"} -> "location"
                 [] name \in {"Accept", "accept"} -> "accept"

\* the spelling aiohttp's C request parser gives a well-known header name
canonical(name) == CASE lower(name) = "host" -> "Host"
                     [] lower(name) = "content-length" -> "Content-Length"
                     [] lower(name) = "accept" -> "Accept"

\* request.headers: the fields the client sent, in order; the C parser
\* replaces well-known names by their canonical spelling, the pure-Python
\* parser keeps the client's spelling
request_headers(sent, canon) ==
  IF canon THEN [i \in 1..Len(sent) |-> [name |-> canonical(sent[i].name), value |-> sent[i].value]]
  ELSE sent

\* CIMultiDictProxy.__getitem__: the first value under a name, letter case
\* ignored
getitem(h, key) ==
  LET i == CHOOSE k \in 1..Len(h) :
             /\ lower(h[k].name) = lower(key)
             /\ \A j \in 1..(k - 1) : lower(h[j].name) # lower(key)
  IN  h[i].value

\* dict(request.headers): a plain dict, one key per spelling
dict_of(h) == [n \in {h[i].name : i \in 1..Len(h)} |-> getitem(h, n)]

\* d[key] = value and d.pop(key, None) on a plain dict: exact spelling
dict_set(d, key, value) == [n \in DOMAIN d \cup {key} |-> IF n = key THEN value ELSE d[n]]
dict_pop(d, key) == [n \in DOMAIN d \ {key} |-> d[n]]

\* lines 70-74
outbound_headers(h) ==
  dict_pop(dict_set(dict_of(h), "Host", BackendHost), "Content-Length")

BuildHeaders ==
  /\ mKind = "request_headers" /\ mPc = "input"
  /\ mOutHeaders' = outbound_headers(request_headers(mReqHeaders, mParserCanon))
  /\ mPc' = "done"
  /\ UNCHANGED <<mKind, mQuery, mTargetQuery, mParserCanon, mReqHeaders, mBackendResp,
                 mClientResp, mMethod, mPath, mHandler>>
  /\ UNCHANGED <<cfgVars, supVars, wsVars, httpVars, normVars>>

\* C13 as stated: whatever the letter case of the client's header names, the
\* headers passed to the backend request hold exactly one Host entry, equal
\* to the backend address, and no Content-Length entry.
C13_OutboundHeaderPolicy ==
  (mKind = "request_headers" /\ mPc = "done") =>
    LET hosts == {n \in DOMAIN mOutHeaders : lower(n) = "host"}
    IN  /\ Cardinality(hosts) = 1
        /\ \A n \in hosts : mOutHeaders[n] = BackendHost
        /\ \A n \in DOMAIN mOutHeaders : lower(n) # "content-length"

\* ---- the backend's answer (lines 79-103)
ResponseNames == {"Set-Cookie", "Location", "content-length", "Transfer-Encoding"}
ResponseFields == [name : ResponseNames, value : HeaderValues]
ResponseStatuses == {200, 302, 404}

\* what a followed redirect would end in
RedirectTarget == [status |-> 200, headers |-> << >>, body |-> "target"]

\* session.request(..., allow_redirects=...): the response the client hands
\* back for the backend's first answer
session_request(answer, allow_redirects) ==
  IF allow_redirects /\ answer.status \in 300..399 THEN RedirectTarget ELSE answer

\* CIMultiDict.__setitem__: every entry under the name, letter case ignored,
\* is removed and the new one takes the place of the first
ci_setitem(h, key, value) ==
  IF \E i \in 1..Len(h) : lower(h[i].name) = lower(key)
  THEN LET first == CHOOSE k \in 1..Len(h) :
                      /\ lower(h[k].name) = lower(key)
                      /\ \A j \in 1..(k - 1) : lower(h[j].name) # lower(key)
       IN  SubSeq(h, 1, first - 1) \o <<[name |-> key, value |-> value]>>
             \o SelectSeq(SubSeq(h, first + 1, Len(h)), LAMBDA f : lower(f.name) # lower(key))
  ELSE Append(h, [name |-> key, value |-> value])

\* lines 99-101: the loop over resp.headers.items()
RECURSIVE copy_headers(_, _)
copy_headers(src, dst) ==
  IF src = << >> THEN dst
  ELSE LET f == Head(src)
       IN  IF lower(f.name) \notin {"content-length", "transfer-encoding"}
           THEN copy_headers(Tail(src), ci_setitem(dst, f.name, f.value))
           ELSE copy_headers(Tail(src), dst)

\* lines 93-103: web.Response(status=resp.status, body=body) with the copied
\* headers
client_response(resp) ==
  [status |-> resp.status, headers |-> copy_headers(resp.headers, << >>), body |-> resp.body]

BuildResponse ==
  /\ mKind = "response" /\ mPc = "input"
  /\ mClientResp' = client_response(session_request(mBackendResp, FALSE))
  /\ mPc' = "done"
  /\ UNCHANGED <<mKind, mQuery, mTargetQuery, mParserCanon, mReqHeaders, mOutHeaders,
                 mBackendResp, mMethod, mPath, mHandler>>
  /\ UNCHANGED <<cfgVars, supVars, wsVars, httpVars, normVars>>

\* occurrences of one header field in a header list
Occurrences(h, f) == Cardinality({i \in 1..Len(h) : h[i] = f})

\* C14 as stated: the response has the backend's status and body, and every
\* occurrence of every backend header field except Content-Length and
\* Transfer-Encoding, which it has not; a redirect is passed on as it is.
C14_ResponseFidelity ==
  (mKind = "response" /\ mPc = "done") =>
    /\ mClientResp.status = mBackendResp.status
    /\ mClientResp.body = mBackendResp.body
    /\ \A f \in ResponseFields :
         Occurrences(mClientResp.headers, f) =
           IF lower(f.name) \in {"content-length", "transfer-encoding"} THEN 0
           ELSE Occurrences(mBackendResp.headers, f)

\* ---- the route table (lines 233-237)
RouteMethods == {"GET", "HEAD", "POST"}
WsPath == <<"/", "w", "s">>
RoutePaths == {p \o q : p \in {<< >>, <<"/", "a">>, <<"/", "b">>},
                        q \in {WsPath, <<"/">>, WsPath \o <<"/">>, <<"/", "a">>}}

\* web.get() registers GET and HEAD on its path; web.route('*', '/{path:.*}')
\* takes every method on every path
route_table(prefix) ==
  << [methods |-> {"GET", "HEAD"}, any |-> FALSE, path |-> prefix \o WsPath,
      handler |-> "websocket_proxy"],
     [methods |-> {"GET", "HEAD"}, any |-> FALSE, path |-> WsPath,
      handler |-> "websocket_proxy"],
     [methods |-> RouteMethods, any |-> TRUE, path |-> << >>,
      handler |-> "proxy_handler"] >>

route_matches(r, method, path) == method \in r.methods /\ (r.any \/ r.path = path)

\* UrlDispatcher.resolve: the first route, in registration order, that takes
\* the method and the path
resolve(prefix, method, path) ==
  LET t == route_table(prefix)
      hits == {i \in 1..Len(t) : route_matches(t[i], method, path)}
  IN  IF hits = {} THEN "HTTPNotFound"
      ELSE t[CHOOSE i \in hits : \A j \in hits : i <= j].handler

\* one request against the proxy: there is a handler only if the route table
\* could be built
Dispatch ==
  /\ mKind = "route" /\ mPc = "input"
  /\ mHandler' = IF add_routes(NB_PREFIX) = "ok" THEN resolve(NB_PREFIX, mMethod, mPath)
                 ELSE "not_serving"
  /\ mPc' = "done"
  /\ UNCHANGED <<mKind, mQuery, mTargetQuery, mParserCanon, mReqHeaders, mOutHeaders,
                 mBackendResp, mClientResp, mMethod, mPath>>
  /\ UNCHANGED <<cfgVars, supVars, wsVars, httpVars, normVars>>

\* C15 as stated: for every method and every prefix, the empty one included,
\* a request goes to the WebSocket relay exactly when its path is '/ws' or
\* prefix + '/ws', and to the HTTP forwarder otherwise.
C15_RoutingTotality ==
  (mKind = "route" /\ mPc = "done") =>
    mHandler = IF mPath \in {WsPath, NB_PREFIX \o WsPath} THEN "websocket_proxy"
               ELSE "proxy_handler"

\* ---- the specification: one message of one kind
InitMsg ==
  /\ SupIdle /\ WsIdle /\ HttpIdle /\ NormIdle
  /\ mPc = "input"
  /\ mTargetQuery = << >> /\ mOutHeaders = << >> /\ mClientResp = << >> /\ mHandler = "none"
  /\ \/ /\ mKind = "query"
        /\ mQuery \in Queries
        /\ NB_PREFIX = << >> /\ mParserCanon = FALSE /\ mReqHeaders = << >>
        /\ mBackendResp = << >> /\ mMethod = "GET" /\ mPath = << >>
     \/ /\ mKind = "request_headers"
        /\ mReqHeaders \in SeqsOver(RequestFields, MaxHeaders)
        /\ mParserCanon \in BOOLEAN
        /\ NB_PREFIX = << >> /\ mQuery = << >>
        /\ mBackendResp = << >> /\ mMethod = "GET" /\ mPath = << >>
     \/ /\ mKind = "response"
        /\ mBackendResp \in [status : ResponseStatuses,
                             headers : SeqsOver(ResponseFields, MaxHeaders),
                             body : {"body"}]
        /\ NB_PREFIX = << >> /\ mQuery = << >> /\ mParserCanon = FALSE
        /\ mReqHeaders = << >> /\ mMethod = "GET" /\ mPath = << >>
     \/ /\ mKind = "route"
        /\ NB_PREFIX \in {<< >>, <<"/", "a">>}
        /\ mMethod \in RouteMethods
        /\ mPath \in RoutePaths
        /\ mQuery = << >> /\ mParserCanon = FALSE /\ mReqHeaders = << >>
        /\ mBackendResp = << >>

NextMsg == BuildTargetUrl \/ BuildHeaders \/ BuildResponse \/ Dispatch

SpecMsg == InitMsg /\ [][NextMsg]_vars

====
